---- MODULE Spec2Model ----
(***************************************************************************)
(* Model of geographic_seo_analyzer.py (class BotFronterasGeoSEO and       *)
(* main): the point analyzer, the campaign loop, the two reports and the   *)
(* interrupt path of main.                                                 *)
(*                                                                         *)
(* Representation.  A Python value that may be None is a sequence of       *)
(* length 0 (None) or 1 (the value).  Text that the code inspects          *)
(* (place names, BUSINESS_KEYWORDS) is a sequence of one-character         *)
(* strings.  Lengths are on an integer grid of kilometres; distancia_km    *)
(* is kept in hundredths of a kilometre (the two decimals round() keeps),  *)
(* ratings in tenths of a star, rating averages in hundredths.  A float    *)
(* quotient that the code only prints (coverage, mean position) is kept    *)
(* as the exact fraction [num, den].                                       *)
(***************************************************************************)
EXTENDS Integers, Sequences, FiniteSets, TLC

VARIABLES
    pc,                 \* position of main / ejecutar_analisis_fronteras
    base_location,      \* self.base_location (lat, lng)
    idx,                \* position of the triple for-loop, as an index into Combinaciones
    resultados_totales, \* the accumulator of ejecutar_analisis_fronteras
    resultado,          \* the dict built by analizar_ciudad, while it is being saved
    respuesta,          \* the search collaborator's answer to the current query
    en_vuelo,           \* number of search queries sent and not yet answered
    db_conn,            \* "open" | "closed"
    intentos_guardado,  \* INSERTs attempted by the current analizar_ciudad call
    ultimo_guardado,    \* how the current call's write ended: "" | "ok" | "error" | "error_rollback"
    invocaciones,       \* the (tier, city, keyword) of each analizar_ciudad call, in call order
    historial,          \* what each analizar_ciudad call returned, in call order
    pausado,            \* a time.sleep has completed since the last query was sent
    mapa,               \* the report of _generar_mapa_dominio, once generated
    recomendaciones,    \* the list printed by _generar_recomendaciones_expansion, once generated
    interrumpido        \* the position at which KeyboardInterrupt was raised, "" if none

vars == <<pc, base_location, idx, resultados_totales, resultado, respuesta, en_vuelo,
          db_conn, intentos_guardado, ultimo_guardado, invocaciones, historial, pausado,
          mapa, recomendaciones, interrumpido>>

(***************************************************************************)
(* Bounds of the model                                                     *)
(***************************************************************************)
\* number of configured test cities that take part (the code declares 23)
NumCiudades == 2
\* longest result list handed to the two reports on their own
MaxResultados == 3
\* longest list of places a search answer carries in the point analysis
MaxPlaces == 21

(***************************************************************************)
(* Program constants                                                       *)
(***************************************************************************)
\* places[:20]
TopPlaces == 20
\* ciudades_ordenadas[:10]
TopOportunidades == 10
\* difficulty thresholds on reviews_competidores
UmbralEasy == 100
UmbralMedium == 200

None == <<>>
Some(x) == <<x>>

Min(a, b) == IF a <= b THEN a ELSE b

RECURSIVE Suma(_)
\* sum(...) over a list of numbers
Suma(s) == IF s = <<>> THEN 0 ELSE Head(s) + Suma(Tail(s))

\* the float quotient a / b, kept exact
Frac(a, b) == [num |-> a, den |-> b]

\* round(a / b) for a >= 0, b > 0: to nearest, ties to even
RoundDiv(a, b) ==
    LET q == a \div b
        r == a % b
    IN  IF 2 * r < b THEN q
        ELSE IF 2 * r > b THEN q + 1
        ELSE IF q % 2 = 0 THEN q ELSE q + 1

RECURSIVE Newton(_, _)
Newton(n, x) ==
    LET y == (x + n \div x) \div 2
    IN  IF y >= x THEN x ELSE Newton(n, y)

\* floor of the square root
Isqrt(n) == IF n = 0 THEN 0 ELSE Newton(n, n)

(***************************************************************************)
(* Configuration: __init__                                                 *)
(***************************************************************************)
tiers == <<"tier_1_immediate", "tier_2_nearby", "tier_3_medium", "tier_4_distant">>

core_keywords == <<"house cleaning", "cleaning services", "maid service">>

\* The declared cities in declaration order, each with its tier, on the
\* kilometre grid.
CiudadesDeclaradas ==
    <<[name |-> "Inglewood",  lat |-> 3, lng |-> 4,  zip |-> "90301", tier |-> tiers[1]],
      [name |-> "Hawthorne",  lat |-> 6, lng |-> 8,  zip |-> "90250", tier |-> tiers[2]],
      [name |-> "El Segundo", lat |-> 9, lng |-> 11, zip |-> "90245", tier |-> tiers[2]],
      [name |-> "Torrance",   lat |-> 3, lng |-> 16, zip |-> "90501", tier |-> tiers[3]],
      [name |-> "Carson",     lat |-> 15, lng |-> 9, zip |-> "90745", tier |-> tiers[3]]>>

\* the cities that take part
CiudadesEnPrueba == SubSeq(CiudadesDeclaradas, 1, Min(NumCiudades, Len(CiudadesDeclaradas)))

\* self.ciudades_test: tier -> its cities in declared order
ciudades_test ==
    [t \in {tiers[i] : i \in 1..Len(tiers)} |->
        LET EnTier(c) == c.tier = t IN SelectSeq(CiudadesEnPrueba, EnTier)]

\* BASE_LAT / BASE_LNG as the environment may set them: a base in the middle
\* of the cities, and a base on latitude 0
Bases == {[lat |-> 6, lng |-> 7], [lat |-> 0, lng |-> 4]}

\* os.getenv('BUSINESS_KEYWORDS'): "Ab, c"
BUSINESS_KEYWORDS == <<"A", "b", ",", " ", "c">>

(***************************************************************************)
(* _calcular_distancia                                                     *)
(***************************************************************************)
\* Thousandths of a kilometre.  The falsy-coordinate guard is the code's; the
\* great-circle formula is the planar distance on the grid.
calcular_distancia(lat1, lng1, lat2, lng2) ==
    IF lat1 = 0 \/ lng1 = 0 \/ lat2 = 0 \/ lng2 = 0
    THEN 0
    ELSE Isqrt(1000000 * ((lat2 - lat1) * (lat2 - lat1) + (lng2 - lng1) * (lng2 - lng1)))

\* round(distancia, 2): thousandths -> hundredths
Round2(m) == RoundDiv(m, 10)

(***************************************************************************)
(* _es_tu_negocio                                                          *)
(***************************************************************************)
LowerChar(c) ==
    CASE c = "A" -> "a" [] c = "B" -> "b" [] c = "C" -> "c"
      [] c = "X" -> "x" [] c = "Y" -> "y" [] OTHER -> c

\* str.lower
Lower(s) == [i \in 1..Len(s) |-> LowerChar(s[i])]

RECURSIVE Split(_, _, _)
\* str.split(sep): acc is the piece being read
Split(s, sep, acc) ==
    IF s = <<>> THEN <<acc>>
    ELSE IF Head(s) = sep THEN <<acc>> \o Split(Tail(s), sep, <<>>)
    ELSE Split(Tail(s), sep, Append(acc, Head(s)))

RECURSIVE LStrip(_)
LStrip(s) == IF s # <<>> /\ Head(s) = " " THEN LStrip(Tail(s)) ELSE s

RECURSIVE RStrip(_)
RStrip(s) == IF s # <<>> /\ s[Len(s)] = " " THEN RStrip(SubSeq(s, 1, Len(s) - 1)) ELSE s

\* str.strip
Strip(s) == RStrip(LStrip(s))

\* term in nombre
Contiene(term, nombre) ==
    \E i \in 0..(Len(nombre) - Len(term)) : SubSeq(nombre, i + 1, i + Len(term)) = term

es_tu_negocio(place) ==
    LET nombre == Lower(place.name)
        business_terms == Split(Lower(BUSINESS_KEYWORDS), ",", <<>>)
    IN  \E k \in 1..Len(business_terms) : Contiene(Strip(business_terms[k]), nombre)

(***************************************************************************)
(* analizar_ciudad: from the answer to the result dict                     *)
(***************************************************************************)
RECURSIVE BuscarPosicionDesdeCero(_, _)
\* mutant: the position is the 0-based index (tu_posicion = idx)
BuscarPosicionDesdeCero(top, i) ==
    IF i > Len(top) THEN None
    ELSE IF es_tu_negocio(top[i]) THEN Some(i - 1)
    ELSE BuscarPosicionDesdeCero(top, i + 1)

RECURSIVE BuscarPosicion(_, _)
\* for idx, place in enumerate(places[:20]): if match: tu_posicion = idx + 1; break
BuscarPosicion(top, i) ==
    IF i > Len(top) THEN None
    ELSE IF es_tu_negocio(top[i]) THEN Some(i)
    ELSE BuscarPosicion(top, i + 1)

\* p.get(key, 0)
GetOr0(opt) == IF opt = None THEN 0 ELSE opt[1]

construir_resultado(base, ciudad, keyword, tier, places) ==
    LET distancia == calcular_distancia(base.lat, base.lng, ciudad.lat, ciudad.lng)
        tu_posicion == BuscarPosicion(SubSeq(places, 1, Min(Len(places), TopPlaces)), 1)
        EsCompetidor(p) == ~es_tu_negocio(p)
        competidores == SelectSeq(places, EsCompetidor)
        ratings == [i \in 1..Len(competidores) |-> GetOr0(competidores[i].rating)]
        reviews == [i \in 1..Len(competidores) |-> GetOr0(competidores[i].user_ratings_total)]
        rating_promedio ==
            IF competidores # <<>> THEN RoundDiv(10 * Suma(ratings), Len(competidores)) ELSE 0
        reviews_promedio ==
            IF competidores # <<>> THEN Suma(reviews) \div Len(competidores) ELSE 0
    IN  [ciudad |-> ciudad.name,
         zip |-> ciudad.zip,
         tier |-> tier,
         keyword |-> keyword,
         aparece |-> tu_posicion # None,
         posicion |-> tu_posicion,
         distancia_km |-> Round2(distancia),
         lat |-> ciudad.lat,
         lng |-> ciudad.lng,
         total_competidores |-> Len(places),
         rating_promedio |-> rating_promedio,
         reviews_promedio |-> reviews_promedio]

\* The search collaborator's answers.  tipo "excepcion": requests.get raised;
\* otherwise an HTTP answer with its status code and the body's status.
RespExcepcion == [tipo |-> "excepcion", status_code |-> 0, status |-> "", results |-> <<>>]
RespHttp(code) == [tipo |-> "http", status_code |-> code, status |-> "", results |-> <<>>]
RespBody(st, places) == [tipo |-> "http", status_code |-> 200, status |-> st, results |-> places]

\* response.status_code == 200 and data['status'] == 'OK'
EsExito(r) == r.tipo = "http" /\ r.status_code = 200 /\ r.status = "OK"

\* mutant: the body's status is not looked at
analizar_respuesta_sin_status(base, ciudad, keyword, tier, r) ==
    IF r.tipo = "excepcion" THEN None
    ELSE IF r.status_code = 200
         THEN Some(construir_resultado(base, ciudad, keyword, tier, r.results))
         ELSE None

\* the value analizar_ciudad has in hand after the answer: the dict, or None
analizar_respuesta(base, ciudad, keyword, tier, r) ==
    IF r.tipo = "excepcion" THEN None
    ELSE IF r.status_code = 200
         THEN IF r.status = "OK"
              THEN Some(construir_resultado(base, ciudad, keyword, tier, r.results))
              ELSE None
         ELSE None

(***************************************************************************)
(* _generar_mapa_dominio                                                   *)
(***************************************************************************)
\* mutant: the last distance of the list instead of the largest
MaxSeqUltimo(s) == s[Len(s)]

RECURSIVE MaxSeq(_)
\* max(...) over a non-empty list
MaxSeq(s) ==
    IF Len(s) = 1 THEN s[1]
    ELSE LET m == MaxSeq(Tail(s)) IN IF Head(s) >= m THEN Head(s) ELSE m

RECURSIVE MinSeq(_)
\* min(...) over a non-empty list
MinSeq(s) ==
    IF Len(s) = 1 THEN s[1]
    ELSE LET m == MinSeq(Tail(s)) IN IF Head(s) <= m THEN Head(s) ELSE m

\* the declared city names in the order sorted() gives them
NombresOrdenados == <<"Carson", "El Segundo", "Hawthorne", "Inglewood", "Torrance">>

\* sorted(ciudades) for a set of city names
Sorted(nombres) ==
    LET Esta(n) == n \in nombres IN SelectSeq(NombresOrdenados, Esta)

\* for ciudad in sorted(ciudades): the city's mean position inside one tier
PosicionesPorCiudad(tier_apariciones) ==
    LET ciudades == {tier_apariciones[i].ciudad : i \in 1..Len(tier_apariciones)}
        orden == Sorted(ciudades)
    IN  [k \in 1..Len(orden) |->
            LET DeCiudad(r) == r.ciudad = orden[k]
                ciudad_results == SelectSeq(tier_apariciones, DeCiudad)
                posiciones == [i \in 1..Len(ciudad_results) |-> ciudad_results[i].posicion[1]]
            IN  [ciudad |-> orden[k], pos_promedio |-> Frac(Suma(posiciones), Len(posiciones))]]

\* mutant: a tier is reported only if the business was found in it
ZonaDeTierSoloConPresencia(tier, resultados, apariciones) ==
    LET DeTier(r) == r.tier = tier
        tier_apariciones == SelectSeq(apariciones, DeTier)
        tier_total == Len(SelectSeq(resultados, DeTier))
    IN  IF tier_apariciones # <<>>
        THEN <<[tier |-> tier,
                con_presencia |-> Len(tier_apariciones),
                total |-> tier_total,
                cobertura |-> Frac(Len(tier_apariciones) * 100, tier_total),
                ciudades |-> PosicionesPorCiudad(tier_apariciones)]>>
        ELSE <<>>

\* the body of "for tier in [...]" for one tier: its entry, or nothing
ZonaDeTier(tier, resultados, apariciones) ==
    LET DeTier(r) == r.tier = tier
        tier_apariciones == SelectSeq(apariciones, DeTier)
        tier_total == Len(SelectSeq(resultados, DeTier))
    IN  IF tier_total > 0
        THEN <<[tier |-> tier,
                con_presencia |-> Len(tier_apariciones),
                total |-> tier_total,
                cobertura |-> Frac(Len(tier_apariciones) * 100, tier_total),
                ciudades |-> PosicionesPorCiudad(tier_apariciones)]>>
        ELSE <<>>

RECURSIVE ZonasDesde(_, _, _)
\* the tier loop, from the i-th declared tier on
ZonasDesde(i, resultados, apariciones) ==
    IF i > Len(tiers) THEN <<>>
    ELSE ZonaDeTier(tiers[i], resultados, apariciones)
            \o ZonasDesde(i + 1, resultados, apariciones)

\* what _generar_mapa_dominio reports for a result list
MapaDominio(resultados) ==
    LET Aparece(r) == r.aparece
        apariciones == SelectSeq(resultados, Aparece)
        distancias == [i \in 1..Len(apariciones) |-> apariciones[i].distancia_km]
        posiciones == [i \in 1..Len(apariciones) |-> apariciones[i].posicion[1]]
    IN  IF apariciones # <<>>
        THEN [dominio |-> TRUE,
              distancia_max |-> MaxSeq(distancias),
              distancia_min |-> MinSeq(distancias),
              posicion_promedio |-> Frac(Suma(posiciones), Len(apariciones)),
              zonas |-> ZonasDesde(1, resultados, apariciones)]
        ELSE [dominio |-> FALSE]

(***************************************************************************)
(* _generar_recomendaciones_expansion                                      *)
(***************************************************************************)
\* The orders in which iterating a Python set of these names can yield them:
\* the order follows the strings' hashes, which differ from process to process.
Ordenes(S) ==
    {s \in [1..Cardinality(S) -> S] : \A i, j \in 1..Cardinality(S) : i # j => s[i] # s[j]}

\* mutant: the last not-found result of the city instead of the first
ciudad_data_ultimo(no_apariciones, ciudad) ==
    LET DeCiudad(r) == r.ciudad = ciudad
        rs == SelectSeq(no_apariciones, DeCiudad)
    IN  rs[Len(rs)]

\* [r for r in no_apariciones if r['ciudad'] == ciudad][0]
ciudad_data(no_apariciones, ciudad) ==
    LET DeCiudad(r) == r.ciudad = ciudad IN SelectSeq(no_apariciones, DeCiudad)[1]

\* the entry ciudades_oportunidad[ciudad]
Oportunidad(no_apariciones, ciudad) ==
    LET d == ciudad_data(no_apariciones, ciudad)
    IN  [ciudad |-> ciudad,
         distancia |-> d.distancia_km,
         tier |-> d.tier,
         competidores |-> d.total_competidores,
         rating_competidores |-> d.rating_promedio,
         reviews_competidores |-> d.reviews_promedio]

RECURSIVE Insertar(_, _)
Insertar(s, x) ==
    IF s = <<>> THEN <<x>>
    ELSE IF x.distancia < Head(s).distancia THEN <<x>> \o s
    ELSE <<Head(s)>> \o Insertar(Tail(s), x)

RECURSIVE Ordenar(_)
\* sorted(items, key=distancia): ascending, equal keys keep their order
Ordenar(s) ==
    IF s = <<>> THEN <<>>
    ELSE Insertar(Ordenar(SubSeq(s, 1, Len(s) - 1)), s[Len(s)])

dificultad(reviews_competidores) ==
    IF reviews_competidores < UmbralEasy THEN "EASY"
    ELSE IF reviews_competidores < UmbralMedium THEN "MEDIUM"
    ELSE "HARD"

\* the (not found) rows of the result list
NoApariciones(resultados) ==
    LET NoAparece(r) == ~r.aparece IN SelectSeq(resultados, NoAparece)

\* set(r['ciudad'] for r in no_apariciones)
CiudadesSinAparicion(resultados) ==
    LET na == NoApariciones(resultados) IN {na[i].ciudad : i \in 1..Len(na)}

\* what _generar_recomendaciones_expansion lists for a result list, when the
\* set of city names is iterated in the order `orden`
Recomendaciones(resultados, orden) ==
    LET no_apariciones == NoApariciones(resultados)
        ciudades_oportunidad ==
            [i \in 1..Len(orden) |-> Oportunidad(no_apariciones, orden[i])]
        ciudades_ordenadas == Ordenar(ciudades_oportunidad)
        top == SubSeq(ciudades_ordenadas, 1, Min(Len(ciudades_ordenadas), TopOportunidades))
    IN  [i \in 1..Len(top) |->
            [ciudad |-> top[i].ciudad,
             distancia |-> top[i].distancia,
             tier |-> top[i].tier,
             competidores |-> top[i].competidores,
             rating_competidores |-> top[i].rating_competidores,
             reviews_competidores |-> top[i].reviews_competidores,
             dificultad |-> dificultad(top[i].reviews_competidores)]]

(***************************************************************************)
(* ejecutar_analisis_fronteras: the combinations in loop order             *)
(***************************************************************************)
RECURSIVE Concat(_)
Concat(ss) == IF ss = <<>> THEN <<>> ELSE Head(ss) \o Concat(Tail(ss))

\* for keyword in self.core_keywords
PorCiudad(tier_name, ciudad) ==
    [k \in 1..Len(core_keywords) |->
        [tier |-> tier_name, ciudad |-> ciudad, keyword |-> core_keywords[k]]]

\* for ciudad in ciudades
PorTier(tier_name) ==
    Concat([j \in 1..Len(ciudades_test[tier_name]) |->
                PorCiudad(tier_name, ciudades_test[tier_name][j])])

\* for tier_name, ciudades in self.ciudades_test.items()
Combinaciones == Concat([i \in 1..Len(tiers) |-> PorTier(tiers[i])])

NumCombinaciones == Len(Combinaciones)

\* the arguments of one analizar_ciudad(ciudad, keyword, tier_name) call
Llamada(c) == [tier |-> c.tier, ciudad |-> c.ciudad.name, keyword |-> c.keyword]

(***************************************************************************)
(* The collaborators' answers                                              *)
(***************************************************************************)
\* a place whose name matches BUSINESS_KEYWORDS ("XAB" holds "ab")
Negocio == [name |-> <<"X", "A", "B">>, rating |-> Some(48), user_ratings_total |-> Some(120)]

\* a place that does not match
Competidor(rating, reviews) == [name |-> <<"x", "y">>, rating |-> rating, user_ratings_total |-> reviews]

\* answers during a campaign: every way to fail, found, and not found
RespuestasCampana ==
    {RespExcepcion, RespHttp(500), RespBody("ZERO_RESULTS", <<>>),
     RespBody("OK", <<Negocio>>),
     RespBody("OK", <<Competidor(Some(40), Some(150))>>)}

\* how the write of _guardar_resultado can end: committed; failed and rolled
\* back; failed, and rollback() raised as well (a lost connection)
ResultadosGuardado == {"ok", "error", "error_rollback"}

(***************************************************************************)
(* The campaign as a state machine                                         *)
(***************************************************************************)
Init ==
    /\ pc = "loop"
    /\ base_location \in Bases
    /\ idx = 1
    /\ resultados_totales = <<>>
    /\ resultado = None
    /\ respuesta = None
    /\ en_vuelo = 0
    /\ db_conn = "open"
    /\ intentos_guardado = 0
    /\ ultimo_guardado = ""
    /\ invocaciones = <<>>
    /\ historial = <<>>
    /\ pausado = FALSE
    /\ mapa = None
    /\ recomendaciones = None
    /\ interrumpido = ""

\* analizar_ciudad up to requests.get: the query leaves
IniciarConsulta ==
    /\ pc = "loop"
    /\ idx <= NumCombinaciones
    /\ pc' = "query"
    /\ en_vuelo' = en_vuelo + 1
    /\ pausado' = FALSE
    /\ invocaciones' = Append(invocaciones, Llamada(Combinaciones[idx]))
    /\ UNCHANGED <<base_location, idx, resultados_totales, resultado, respuesta, db_conn,
                   intentos_guardado, ultimo_guardado, historial, mapa, recomendaciones,
                   interrumpido>>

\* analizar_ciudad from the answer on: None at once, or the dict, to be saved
Responder(R) ==
    /\ pc = "query"
    /\ \E r \in R :
        LET c == Combinaciones[idx]
            res == analizar_respuesta(base_location, c.ciudad, c.keyword, c.tier, r)
        IN  /\ respuesta' = Some(r)
            /\ en_vuelo' = en_vuelo - 1
            /\ resultado' = res
            /\ IF res = None
               THEN /\ historial' = Append(historial, None)
                    /\ pc' = "sleep"
               ELSE /\ historial' = historial
                    /\ pc' = "save"
    /\ UNCHANGED <<invocaciones, base_location, idx, resultados_totales, db_conn, intentos_guardado,
                   ultimo_guardado, pausado, mapa, recomendaciones, interrumpido>>

ResponderCampana == Responder(RespuestasCampana)

\* what analizar_ciudad returns once _guardar_resultado has ended with `o`: an
\* exception that leaves _guardar_resultado is caught by analizar_ciudad's own
\* except clause, which returns None
RetornoTrasGuardar(res, o) == IF o = "error_rollback" THEN None ELSE res

\* _guardar_resultado, the return of analizar_ciudad and the append of the loop
guardar_resultado ==
    /\ pc = "save"
    /\ \E o \in ResultadosGuardado :
        LET ret == RetornoTrasGuardar(resultado, o)
        IN  /\ ultimo_guardado' = o
            /\ historial' = Append(historial, ret)
            /\ resultados_totales' =
                  IF ret # None THEN Append(resultados_totales, ret[1]) ELSE resultados_totales
    /\ intentos_guardado' = intentos_guardado + 1
    /\ pc' = "sleep"
    /\ UNCHANGED <<invocaciones, base_location, idx, resultado, respuesta, en_vuelo, db_conn, pausado,
                   mapa, recomendaciones, interrumpido>>

\* mutant: a call that returned None is made again
DormirReintenta ==
    /\ pc = "sleep"
    /\ pc' = "loop"
    /\ idx' = IF historial[Len(historial)] = None THEN idx ELSE idx + 1
    /\ pausado' = TRUE
    /\ resultado' = None
    /\ respuesta' = None
    /\ intentos_guardado' = 0
    /\ ultimo_guardado' = ""
    /\ UNCHANGED <<invocaciones, base_location, resultados_totales, en_vuelo, db_conn,
                   historial, mapa, recomendaciones, interrumpido>>

\* time.sleep(random.uniform(1.5, 3)) ends; the loops step
Dormir ==
    /\ pc = "sleep"
    /\ pc' = "loop"
    /\ idx' = idx + 1
    /\ pausado' = TRUE
    /\ resultado' = None
    /\ respuesta' = None
    /\ intentos_guardado' = 0
    /\ ultimo_guardado' = ""
    /\ UNCHANGED <<invocaciones, base_location, resultados_totales, en_vuelo, db_conn, historial, mapa,
                   recomendaciones, interrumpido>>

\* self._generar_mapa_dominio(resultados_totales), after the loops
generar_mapa_dominio ==
    /\ pc = "loop"
    /\ idx > NumCombinaciones
    /\ mapa' = Some(MapaDominio(resultados_totales))
    /\ pc' = "report_exp"
    /\ UNCHANGED <<invocaciones, base_location, idx, resultados_totales, resultado, respuesta, en_vuelo,
                   db_conn, intentos_guardado, ultimo_guardado, historial, pausado,
                   recomendaciones, interrumpido>>

\* self._generar_recomendaciones_expansion(resultados_totales); return
generar_recomendaciones_expansion ==
    /\ pc = "report_exp"
    /\ \E orden \in Ordenes(CiudadesSinAparicion(resultados_totales)) :
          recomendaciones' = Some(Recomendaciones(resultados_totales, orden))
    /\ pc' = "returned"
    /\ UNCHANGED <<invocaciones, base_location, idx, resultados_totales, resultado, respuesta, en_vuelo,
                   db_conn, intentos_guardado, ultimo_guardado, historial, pausado, mapa,
                   interrumpido>>

\* KeyboardInterrupt is raised in the run; no except Exception clause catches
\* it, so the frames of analizar_ciudad and _guardar_resultado are left, the
\* query or write in progress is abandoned, and control reaches main's handler
Interrumpir ==
    /\ pc \in {"loop", "query", "save", "sleep", "report_exp"}
    /\ interrumpido' = pc
    /\ pc' = "interrupted"
    /\ en_vuelo' = 0
    /\ resultado' = None
    /\ respuesta' = None
    /\ intentos_guardado' = 0
    /\ ultimo_guardado' = ""
    /\ UNCHANGED <<invocaciones, base_location, idx, resultados_totales, db_conn, historial,
                   pausado, mapa, recomendaciones>>

\* mutant: the connection is closed on the normal path only (no finally)
cerrar_sin_finally ==
    /\ pc = "returned"
    /\ db_conn' = IF db_conn = "open" THEN "closed" ELSE db_conn
    /\ pc' = "closed"
    /\ UNCHANGED <<invocaciones, base_location, idx, resultados_totales, resultado, respuesta,
                   en_vuelo, intentos_guardado, ultimo_guardado, historial, pausado, mapa,
                   recomendaciones, interrumpido>>

\* main's finally: bot.cerrar()
cerrar ==
    /\ pc \in {"returned", "interrupted"}
    /\ db_conn' = IF db_conn = "open" THEN "closed" ELSE db_conn
    /\ pc' = "closed"
    /\ UNCHANGED <<invocaciones, base_location, idx, resultados_totales, resultado, respuesta, en_vuelo,
                   intentos_guardado, ultimo_guardado, historial, pausado, mapa,
                   recomendaciones, interrumpido>>

Next ==
    \/ IniciarConsulta
    \/ ResponderCampana
    \/ guardar_resultado
    \/ Dormir
    \/ generar_mapa_dominio
    \/ generar_recomendaciones_expansion
    \/ Interrumpir
    \/ cerrar

Spec == Init /\ [][Next]_vars

\* the interpreter runs main's handler and finally clause once control is there
FairSpec == Spec /\ WF_vars(cerrar)

(***************************************************************************)
(* The point analysis on its own: one call of analizar_ciudad whose query  *)
(* is outstanding, every earlier call having returned None, answered from  *)
(* a wide set of place lists (longer than the places[:20] cap).            *)
(***************************************************************************)
\* n places, the business at the positions in P, the others one competitor
PlacesCon(n, P, comp) == [i \in 1..n |-> IF i \in P THEN Negocio ELSE comp]

CompetidoresPunto == {Competidor(Some(45), Some(80)), Competidor(None, None)}

PlacesPunto ==
    {PlacesCon(n, P, comp) :
        n \in 0..MaxPlaces,
        P \in {{}} \cup {{a, b} : a, b \in 1..MaxPlaces},
        comp \in CompetidoresPunto}

RespuestasPunto ==
    {RespExcepcion, RespHttp(403), RespBody("OVER_QUERY_LIMIT", <<>>)}
        \cup {RespBody("OK", pl) : pl \in PlacesPunto}

InitPunto ==
    /\ pc = "query"
    /\ base_location \in Bases
    /\ idx \in 1..NumCombinaciones
    /\ resultados_totales = <<>>
    /\ resultado = None
    /\ respuesta = None
    /\ en_vuelo = 1
    /\ db_conn = "open"
    /\ intentos_guardado = 0
    /\ ultimo_guardado = ""
    /\ invocaciones = [i \in 1..idx |-> Llamada(Combinaciones[i])]
    /\ historial = [i \in 1..(idx - 1) |-> None]
    /\ pausado = FALSE
    /\ mapa = None
    /\ recomendaciones = None
    /\ interrumpido = ""

ResponderPunto == Responder(RespuestasPunto)

NextPunto == ResponderPunto

SpecPunto == InitPunto /\ [][NextPunto]_vars

(***************************************************************************)
(* The two reports on their own: the loops have ended with at most         *)
(* MaxResultados calls having returned a result, the others None.          *)
(***************************************************************************)
\* place lists behind the results: found first, found second, not found
\* among few reviews, not found among many
PlacesInforme ==
    {<<Negocio>>,
     <<Competidor(Some(40), Some(150)), Negocio>>,
     <<Competidor(Some(42), Some(50))>>,
     <<Competidor(Some(47), Some(250))>>}

\* what the calls returned: f gives the place list of each call that returned a result
HistorialDe(base, f) ==
    [i \in 1..NumCombinaciones |->
        IF i \in DOMAIN f
        THEN LET c == Combinaciones[i]
             IN  analizar_respuesta(base, c.ciudad, c.keyword, c.tier, RespBody("OK", f[i]))
        ELSE None]

\* if resultado: resultados_totales.append(resultado), over the whole run
Acumular(h) == Concat(h)

InitInformes ==
    /\ pc = "loop"
    /\ base_location \in Bases
    /\ idx = NumCombinaciones + 1
    /\ \E S \in {T \in SUBSET (1..NumCombinaciones) : Cardinality(T) <= MaxResultados} :
         \E f \in [S -> PlacesInforme] :
            /\ historial = HistorialDe(base_location, f)
            /\ resultados_totales = Acumular(historial)
    /\ resultado = None
    /\ respuesta = None
    /\ en_vuelo = 0
    /\ db_conn = "open"
    /\ intentos_guardado = 0
    /\ ultimo_guardado = ""
    /\ invocaciones = [i \in 1..NumCombinaciones |-> Llamada(Combinaciones[i])]
    /\ pausado = TRUE
    /\ mapa = None
    /\ recomendaciones = None
    /\ interrumpido = ""

NextInformes ==
    \/ generar_mapa_dominio
    \/ generar_recomendaciones_expansion

SpecInformes == InitInformes /\ [][NextInformes]_vars

(***************************************************************************)
(* Properties                                                              *)
(***************************************************************************)
Ultimo(s) == s[Len(s)]

IsPrefix(s, t) == Len(s) <= Len(t) /\ SubSeq(t, 1, Len(s)) = s

\* index of the first result of the input list that is for `ciudad`
PrimeraAparicion(ciudad) ==
    CHOOSE k \in 1..Len(resultados_totales) :
        /\ resultados_totales[k].ciudad = ciudad
        /\ \A j \in 1..(k - 1) : resultados_totales[j].ciudad # ciudad

\* index of the first not-found result of the input list that is for `ciudad`
PrimeraAusencia(ciudad) ==
    CHOOSE k \in 1..Len(resultados_totales) :
        /\ resultados_totales[k].ciudad = ciudad
        /\ ~resultados_totales[k].aparece
        /\ \A j \in 1..(k - 1) :
              ~(resultados_totales[j].ciudad = ciudad /\ ~resultados_totales[j].aparece)

\* the indices of the results with found = true
Presentes == {k \in 1..Len(resultados_totales) : resultados_totales[k].aparece}

RECURSIVE SumaPosiciones(_)
SumaPosiciones(I) ==
    IF I = {} THEN 0
    ELSE LET i == CHOOSE x \in I : TRUE
         IN  resultados_totales[i].posicion[1] + SumaPosiciones(I \ {i})

\* C1: every expansion candidate is a location with zero presence: no location
\* with at least one found result in the input list is listed as a candidate.
C1_CandidatosSinPresencia ==
    recomendaciones # None =>
        \A i \in 1..Len(recomendaciones[1]) :
            \A k \in 1..Len(resultados_totales) :
                resultados_totales[k].ciudad = recomendaciones[1][i].ciudad
                    => ~resultados_totales[k].aparece

\* C2: the candidates are the first 10 of the deduplicated locations in
\* ascending distance, and candidates at equal distance come in the order in
\* which their locations first occur in the input list.
C2_OrdenEstablePorEntrada ==
    recomendaciones # None =>
        LET rec == recomendaciones[1]
            sin == {resultados_totales[k].ciudad :
                        k \in {j \in 1..Len(resultados_totales) : ~resultados_totales[j].aparece}}
        IN  /\ Len(rec) = Min(Cardinality(sin), TopOportunidades)
            /\ \A i, j \in 1..Len(rec) : i < j => rec[i].distancia <= rec[j].distancia
            /\ \A i, j \in 1..Len(rec) :
                  (i < j /\ rec[i].distancia = rec[j].distancia)
                      => PrimeraAparicion(rec[i].ciudad) < PrimeraAparicion(rec[j].ciudad)

\* C3: at most one candidate per location name, and each candidate carries the
\* distance, tier, competitor count and competitor averages of the first
\* not-found result of its location in input order.
C3_PrimeroGana ==
    recomendaciones # None =>
        LET rec == recomendaciones[1]
        IN  \A i \in 1..Len(rec) :
                /\ \A j \in 1..Len(rec) : j # i => rec[j].ciudad # rec[i].ciudad
                /\ \E k \in 1..Len(resultados_totales) :
                      resultados_totales[k].ciudad = rec[i].ciudad /\ ~resultados_totales[k].aparece
                /\ LET r == resultados_totales[PrimeraAusencia(rec[i].ciudad)]
                   IN  /\ rec[i].distancia = r.distancia_km
                       /\ rec[i].tier = r.tier
                       /\ rec[i].competidores = r.total_competidores
                       /\ rec[i].rating_competidores = r.rating_promedio
                       /\ rec[i].reviews_competidores = r.reviews_promedio

\* C3 witness: a candidate was produced for a location that has two not-found
\* results with different competitor averages.
C3_Witness ==
    /\ recomendaciones # None
    /\ \E i \in 1..Len(recomendaciones[1]) :
         \E a, b \in 1..Len(resultados_totales) :
            /\ a < b
            /\ resultados_totales[a].ciudad = recomendaciones[1][i].ciudad
            /\ resultados_totales[b].ciudad = recomendaciones[1][i].ciudad
            /\ ~resultados_totales[a].aparece
            /\ ~resultados_totales[b].aparece
            /\ resultados_totales[a].reviews_promedio # resultados_totales[b].reviews_promedio

\* C4: when the write of an analysed point fails, in whatever way, the call
\* still returns the result and the loop still appends it.
C4_FalloDeGuardadoNoAfecta ==
    (pc = "sleep" /\ ultimo_guardado \in {"error", "error_rollback"}) =>
        /\ resultado # None
        /\ Ultimo(historial) = resultado
        /\ resultados_totales # <<>>
        /\ Ultimo(resultados_totales) = resultado[1]

\* C5: a call whose search failed (exception, non-200, body status not OK)
\* returns None without any write and the run goes on; a call that returns a
\* result attempted exactly one write.
C5_FalloDeBusquedaYEscrituras ==
    interrumpido = "" =>
        /\ (respuesta # None /\ ~EsExito(respuesta[1])) =>
              /\ intentos_guardado = 0
              /\ Len(historial) = idx
              /\ historial[idx] = None
              /\ pc = "sleep"
        /\ (pc = "sleep" /\ historial[idx] # None) => intentos_guardado = 1

\* C5 witness: a call has just returned None after a failed search, while an
\* earlier call returned a result.
C5_Witness ==
    /\ pc = "sleep"
    /\ respuesta # None
    /\ ~EsExito(respuesta[1])
    /\ resultados_totales # <<>>

\* C6: in every emitted result, found holds exactly when the position is
\* present; a present position is the 1-based index of the first matching
\* place among the first 20; with no match among the first 20 the result is
\* not found and has no position.
C6_PosicionPrimerAcierto ==
    resultado # None =>
        LET r == resultado[1]
            places == respuesta[1].results
            n == Min(Len(places), 20)
        IN  /\ r.aparece <=> r.posicion # None
            /\ r.posicion # None =>
                  /\ r.posicion[1] \in 1..n
                  /\ es_tu_negocio(places[r.posicion[1]])
                  /\ \A j \in 1..(r.posicion[1] - 1) : ~es_tu_negocio(places[j])
            /\ (\A j \in 1..n : ~es_tu_negocio(places[j])) => (~r.aparece /\ r.posicion = None)

\* C6 witness: a result with position 20 from a list of more than 20 places.
C6_Witness ==
    /\ resultado # None
    /\ resultado[1].posicion = Some(20)
    /\ Len(respuesta[1].results) > 20

\* C7: the dominance report says "no dominance" exactly when no result is
\* found; otherwise its radius is the largest distance of the found results,
\* its minimum the smallest, and its average position their mean position.
C7_MapaDominio ==
    mapa # None =>
        LET m == mapa[1]
        IN  /\ ~m.dominio <=> Presentes = {}
            /\ m.dominio =>
                  /\ \E k \in Presentes : resultados_totales[k].distancia_km = m.distancia_max
                  /\ \A k \in Presentes : resultados_totales[k].distancia_km <= m.distancia_max
                  /\ \E k \in Presentes : resultados_totales[k].distancia_km = m.distancia_min
                  /\ \A k \in Presentes : resultados_totales[k].distancia_km >= m.distancia_min
                  /\ m.posicion_promedio.den > 0
                  /\ m.posicion_promedio.num * Cardinality(Presentes)
                        = SumaPosiciones(Presentes) * m.posicion_promedio.den

\* C7 witness: a report over found results at different distances and positions.
C7_Witness ==
    /\ mapa # None
    /\ mapa[1].dominio
    /\ mapa[1].distancia_min < mapa[1].distancia_max
    /\ \E a, b \in Presentes :
          resultados_totales[a].posicion # resultados_totales[b].posicion

\* the indices of the results of one tier
DeTier(t) == {k \in 1..Len(resultados_totales) : resultados_totales[k].tier = t}

\* the report's entries give each tier the same coverage as the result list
CoberturaCorrecta(zonas) ==
    \A i \in 1..Len(zonas) :
        /\ zonas[i].total = Cardinality(DeTier(zonas[i].tier))
        /\ zonas[i].con_presencia = Cardinality(DeTier(zonas[i].tier) \cap Presentes)
        /\ zonas[i].cobertura.den = zonas[i].total
        /\ zonas[i].cobertura.num = 100 * zonas[i].con_presencia

\* C8 as claimed: with at least one found result, the report has an entry for
\* every declared tier (here: every tier that has cities), in declared order,
\* with coverage found/total where the tier has results.
C8_TodosLosTiers ==
    (mapa # None /\ mapa[1].dominio) =>
        LET zonas == mapa[1].zonas
            ConCiudades(t) == ciudades_test[t] # <<>>
            esperados == SelectSeq(tiers, ConCiudades)
        IN  /\ Len(zonas) = Len(esperados)
            /\ \A i \in 1..Len(zonas) : zonas[i].tier = esperados[i]
            /\ CoberturaCorrecta(zonas)

\* C8 amended: with at least one found result, the report has an entry for
\* exactly the declared tiers that have at least one result, in declared
\* order, with coverage found/total (0 of n when none is found); a tier with
\* no result has no entry.
C8_TiersConResultados ==
    (mapa # None /\ mapa[1].dominio) =>
        LET zonas == mapa[1].zonas
            ConResultados(t) == DeTier(t) # {}
            esperados == SelectSeq(tiers, ConResultados)
        IN  /\ Len(zonas) = Len(esperados)
            /\ \A i \in 1..Len(zonas) : zonas[i].tier = esperados[i]
            /\ CoberturaCorrecta(zonas)

\* C8 witness: a report with two tiers, one of them with results and none found.
C8_Witness ==
    /\ mapa # None
    /\ mapa[1].dominio
    /\ Len(mapa[1].zonas) >= 2
    /\ \E i \in 1..Len(mapa[1].zonas) :
          mapa[1].zonas[i].con_presencia = 0 /\ mapa[1].zonas[i].total > 0

\* position of x in a sequence without repetitions
IndiceEn(seq, x) == CHOOSE i \in 1..Len(seq) : seq[i] = x

\* a comes before b in the order tiers, then cities, then keywords, as declared
Precede(a, b) ==
    LET ta == IndiceEn(tiers, a.tier)
        tb == IndiceEn(tiers, b.tier)
        nombres == [i \in 1..Len(CiudadesDeclaradas) |-> CiudadesDeclaradas[i].name]
        ca == IndiceEn(nombres, a.ciudad)
        cb == IndiceEn(nombres, b.ciudad)
        ka == IndiceEn(core_keywords, a.keyword)
        kb == IndiceEn(core_keywords, b.keyword)
    IN  \/ ta < tb
        \/ ta = tb /\ ca < cb
        \/ ta = tb /\ ca = cb /\ ka < kb

\* every (tier, city, keyword) of the configuration
TodasLasLlamadas ==
    {[tier |-> CiudadesEnPrueba[i].tier, ciudad |-> CiudadesEnPrueba[i].name,
      keyword |-> core_keywords[k]] :
        i \in 1..Len(CiudadesEnPrueba), k \in 1..Len(core_keywords)}

\* the results the calls so far returned, in call order
Devueltos ==
    LET NoEsNone(x) == x # None
        d == SelectSeq(historial, NoEsNone)
    IN  [k \in 1..Len(d) |-> d[k][1]]

C9_Estado ==
    /\ en_vuelo \in {0, 1}
    /\ \A i \in 1..(Len(invocaciones) - 1) : Precede(invocaciones[i], invocaciones[i + 1])
    /\ Len(historial) <= Len(invocaciones)
    /\ \A i \in 1..Len(historial) :
          historial[i] # None =>
              /\ historial[i][1].ciudad = invocaciones[i].ciudad
              /\ historial[i][1].keyword = invocaciones[i].keyword
              /\ historial[i][1].tier = invocaciones[i].tier
    /\ resultados_totales = Devueltos
    /\ (interrumpido = "" /\ pc \in {"report_exp", "returned", "closed"}) =>
          /\ {invocaciones[i] : i \in 1..Len(invocaciones)} = TodasLasLlamadas
          /\ Len(invocaciones) = Cardinality(TodasLasLlamadas)
          /\ Len(historial) = Len(invocaciones)

C9_Paso ==
    /\ en_vuelo' > en_vuelo => (invocaciones = <<>> \/ pausado)
    /\ IsPrefix(resultados_totales, resultados_totales')

C10_Interrupcion ==
    /\ []((interrumpido # "" /\ idx <= NumCombinaciones)
            => (mapa = None /\ recomendaciones = None))
    /\ []((mapa # None \/ recomendaciones # None)
            => (idx > NumCombinaciones /\ Len(historial) = NumCombinaciones))
    /\ ((interrumpido # "") ~> (db_conn = "closed"))

\* C10 witness: the run was interrupted during a write, with results
\* accumulated, and the connection is closed.
C10_Witness ==
    /\ interrumpido = "save"
    /\ resultados_totales # <<>>
    /\ db_conn = "closed"
    /\ mapa = None
    /\ recomendaciones = None

====
